---- MODULE Spec2Model ----
(***************************************************************************)
(* The graph-backed memory API of app/routes.py over the Cypher statements *)
(* of app/cypher.py.  The graph is a record of node sets (one per label)   *)
(* and one set of typed edges.  Every statement is an operator from the    *)
(* graph and its parameters to the graph it commits and the rows it        *)
(* returns, clause by clause: MERGE matches or creates, MATCH and UNWIND   *)
(* multiply or drop rows, and a clause that receives no row does nothing.  *)
(* Properties that a statement sets alike in ON CREATE and ON MATCH are     *)
(* carried by one field (text for a Thought or Claim, vector for the        *)
(* coordinates, embed and tags of a SelfState, name for a Ritual or Law);   *)
(* map-valued properties (conditions, meta) are not modelled.  No statement *)
(* creates a Source, Phase, Artifact or Test node, so these sets stay       *)
(* empty.                                                                   *)
(***************************************************************************)
EXTENDS Integers, Sequences, FiniteSets

VARIABLES graph, now, uuids, req, resp

vars == <<graph, now, uuids, req, resp>>

(* ----------------------------- values ---------------------------------- *)

\* None / an absent property, and a present optional value.
Null == <<>>
Some(v) == <<v>>

\* Bounds of the model: write transactions per run, and the timestamps t a
\* caller gives a SelfState.
MaxWrites == 3
MaxT == 2

\* Identifiers a caller supplies, and the ones the store generates.
CallerId(k) == <<"id", k>>
randomUUID(n) == <<"uuid", n>>
id1 == CallerId("agent-1")
id2 == CallerId("agent-2")
Ids == {id1, id2}

Scope == {"public", "shared", "private"}

Range(s) == {s[k] : k \in 1..Len(s)}

\* A node is named in an edge by its label and primary key.
Ref(label, id) == <<label, id>>

(* ----------------------------- the graph ------------------------------- *)

EmptyGraph ==
  [Identity |-> {}, Consent |-> {}, SelfState |-> {}, Thought |-> {},
   Claim |-> {}, Glyph |-> {}, Ritual |-> {}, Law |-> {},
   Source |-> {}, Phase |-> {}, edges |-> {}]

Edge(rel, src, dst, props) == [rel |-> rel, src |-> src, dst |-> dst, props |-> props]

\* MERGE (a)-[:REL]->(b): one edge of that type between the pair, whatever its
\* properties, is matched; otherwise one is created without properties.
MergeEdge(E, rel, src, dst) ==
  IF \E e \in E : e.rel = rel /\ e.src = src /\ e.dst = dst
  THEN E
  ELSE E \cup {Edge(rel, src, dst, Null)}

Out(g, rel, src) == {e \in g.edges : e.rel = rel /\ e.src = src}

(* ------------------------- Identity and Consent ------------------------ *)

\* An ON MATCH SET that stamps the creation time again.
IdentityOnMatchRestamp(n, label, kind, t) ==
  [n EXCEPT !.label = label, !.kind = kind, !.created_at = Some(t)]

\* What the MERGE does to a matched Identity: the statement has an ON CREATE SET
\* and no ON MATCH SET.
IdentityOnMatch(n, label, kind, t) == n

UPSERT_IDENTITY(g, node_id, label, kind, t) ==
  LET matched == {n \in g.Identity : n.node_id = node_id}
      created == [node_id |-> node_id, label |-> label, kind |-> kind,
                  created_at |-> Some(t)]
      after == IF matched = {} THEN {created}
               ELSE {IdentityOnMatch(n, label, kind, t) : n \in matched}
  IN [graph |-> [g EXCEPT !.Identity = (g.Identity \ matched) \cup after],
      rows |-> after]

\* The guard without its revoked_at test.
GuardMatchesRevokedToo(g, node_id, scope) ==
  {c \in g.Consent :
     /\ \E e \in Out(g, "CONSENT", Ref("Identity", node_id)) :
          e.dst = Ref("Consent", c.consent_id)
     /\ c.scope \in {scope, "public"}}

\* MATCH (i)-[:CONSENT]->(c) WHERE c.revoked_at IS NULL AND c.scope IN [$scope,'public']
\* RETURN count(c) > 0: an aggregation, so always exactly one row.
GuardMatches(g, node_id, scope) ==
  {c \in g.Consent :
     /\ \E i \in g.Identity : i.node_id = node_id
     /\ \E e \in Out(g, "CONSENT", Ref("Identity", node_id)) :
          e.dst = Ref("Consent", c.consent_id)
     /\ c.revoked_at = Null
     /\ c.scope \in {scope, "public"}}

CONSENT_GUARD(g, node_id, scope) ==
  {[allowed |-> Cardinality(GuardMatches(g, node_id, scope)) > 0]}

\* bool(rows and rows[0].get("allowed"))
Allowed(g, node_id, scope) ==
  LET rows == CONSENT_GUARD(g, node_id, scope)
  IN rows # {} /\ (\E r \in rows : r.allowed)

\* coalesce($id, randomUUID()), coalesce($state_id, apoc.create.uuid())
coalesce(id, u) == IF id = Null THEN randomUUID(u) ELSE id[1]

CREATE_CONSENT(g, consent_id, node_id, scope, granted_at, revoked_at, t, u) ==
  LET matched == {n \in g.Identity : n.node_id = node_id}
      stub == [node_id |-> node_id, label |-> Null, kind |-> Null, created_at |-> Null]
      idents == IF matched = {} THEN g.Identity \cup {stub} ELSE g.Identity
      key == coalesce(consent_id, u)
      found == {c \in g.Consent : c.consent_id = key}
      created == [consent_id |-> key, scope |-> scope,
                  granted_at |-> IF granted_at = Null THEN Some(t) ELSE granted_at,
                  revoked_at |-> revoked_at]
      \* SET c.revoked_at = $revoked_at, on the created and on the matched node alike
      after == IF found = {} THEN {created}
               ELSE {[c EXCEPT !.revoked_at = revoked_at] : c \in found}
  IN [graph |-> [g EXCEPT !.Identity = idents,
                          !.Consent = (g.Consent \ found) \cup after,
                          !.edges = MergeEdge(g.edges, "CONSENT",
                                              Ref("Identity", node_id),
                                              Ref("Consent", key))],
      rows |-> after]

(* ------------------------------ SelfState ------------------------------ *)

\* MATCH (e) WHERE e.claim_id = id OR e.thought_id = id OR e.test_id = id OR
\* e.artifact_id = id: every node, of whatever label, carrying one of these keys
\* with that value.  No statement creates a node with test_id or artifact_id.
ClaimOrThought(g, id) ==
  {Ref("Claim", c.claim_id) : c \in {c \in g.Claim : c.claim_id = id}} \cup
  {Ref("Thought", th.thought_id) : th \in {th \in g.Thought : th.thought_id = id}}

\* n { .* }: the stored properties of the node an edge points to.
Props(g, ref) ==
  CASE ref[1] = "Claim" -> CHOOSE c \in g.Claim : c.claim_id = ref[2]
    [] ref[1] = "Thought" -> CHOOSE th \in g.Thought : th.thought_id = ref[2]
    [] ref[1] = "SelfState" -> CHOOSE s \in g.SelfState : s.state_id = ref[2]
    [] ref[1] = "Identity" -> CHOOSE i \in g.Identity : i.node_id = ref[2]
    [] ref[1] = "Law" -> CHOOSE l \in g.Law : l.law_id = ref[2]
    [] OTHER -> [id |-> ref[2]]

\* MERGE (s)-[:DERIVED_FROM]->(p), for the SelfState p that the MATCH of the
\* FOREACH body finds under the given id; nothing when there is none.
DerivedFromEdge(E, s, p) == MergeEdge(E, "DERIVED_FROM", s, p)

\* UNWIND $evidence AS ev MATCH (e) ... MERGE (s)-[:EVIDENCED_BY]->(e)
EvidenceRows(g, evidence) ==
  UNION {{<<k, e>> : e \in ClaimOrThought(g, evidence[k])} : k \in 1..Len(evidence)}

\* UNWIND $feels AS f MATCH (t) WHERE t.claim_id = f.target_id OR t.thought_id = f.target_id
FeelsRows(g, feels) ==
  UNION {{<<k, x>> : x \in ClaimOrThought(g, feels[k].target_id)} : k \in 1..Len(feels)}

\* CREATE (s)-[r:FEELS]->(t) in place of the MERGE: one edge per listed row.
FeelsEdgesCreate(E, g, s, feels, k) ==
  E \cup UNION {{Edge("FEELS", s, x, <<feels[j].ache, feels[j].tension>>) :
                   x \in ClaimOrThought(g, feels[j].target_id)} : j \in k..Len(feels)}

\* MERGE (s)-[r:FEELS]->(t) SET r.ache = f.ache, r.tension = f.tension, in list order.
RECURSIVE FeelsEdges(_, _, _, _, _)
FeelsEdges(E, g, s, feels, k) ==
  IF k > Len(feels) THEN E
  ELSE LET f == feels[k]
           targets == ClaimOrThought(g, f.target_id)
           kept == {e \in E : ~(e.rel = "FEELS" /\ e.src = s /\ e.dst \in targets)}
           set == {Edge("FEELS", s, x, <<f.ache, f.tension>>) : x \in targets}
       IN FeelsEdges(kept \cup set, g, s, feels, k + 1)

UPSERT_STATE(g, p, t, u) ==
  LET idents == {i \in g.Identity : i.node_id = p.node_id}
      key == coalesce(p.state_id, u)
      matched == {s \in g.SelfState : s.state_id = key}
      created == [state_id |-> key, t |-> p.t, vector |-> p.vector, created_at |-> Some(t)]
      after == IF matched = {} THEN {created}
               ELSE {[s EXCEPT !.t = p.t, !.vector = p.vector] : s \in matched}
      states == (g.SelfState \ matched) \cup after
      sref == Ref("SelfState", key)
      \* MERGE (i)-[:HAS_STATE {dt:datetime()}]->(s)
      e1 == g.edges \cup {Edge("HAS_STATE", Ref("Identity", i.node_id), sref, Some(t)) : i \in idents}
      \* OPTIONAL MATCH (p:Phase {phase_id:$phase_id}) FOREACH ... MERGE (s)-[:IN_PHASE]->(p)
      phases == {ph \in g.Phase : p.phase_id # Null /\ ph.phase_id = p.phase_id[1]}
      e2 == e1 \cup {Edge("IN_PHASE", sref, Ref("Phase", ph.phase_id), Null) : ph \in phases}
      \* FOREACH (prev IN ...| MATCH (p:SelfState {state_id: prev}) MERGE (s)-[:DERIVED_FROM]->(p))
      prevs == IF p.derived_from_state_id = Null THEN {}
               ELSE {q \in states : q.state_id = p.derived_from_state_id[1]}
      e3 == IF prevs = {} THEN e2
            ELSE DerivedFromEdge(e2, sref, Ref("SelfState", p.derived_from_state_id[1]))
      g3 == [g EXCEPT !.SelfState = states, !.edges = e3]
      rows1 == EvidenceRows(g3, p.evidence)
      e4 == e3 \cup {Edge("EVIDENCED_BY", sref, r[2], Null) : r \in rows1}
      rows2 == IF rows1 = {} THEN {} ELSE FeelsRows(g3, p.feels)
      e5 == IF rows1 = {} THEN e4 ELSE FeelsEdges(e4, g3, sref, p.feels, 1)
  IN IF idents = {} THEN [graph |-> g, rows |-> {}]
     ELSE [graph |-> [g3 EXCEPT !.edges = e5],
           rows |-> IF rows2 = {} THEN {} ELSE after]

\* OPTIONAL MATCH: the matches, or one row holding null.
Optional(S) == IF S = {} THEN {Null} ELSE {Some(x) : x \in S}

\* collect(DISTINCT v): each non-null value once.  A collected list is a bag:
\* value |-> number of times it is listed.
collect_DISTINCT(rows, k) ==
  [v \in {r[k][1] : r \in {r \in rows : r[k] # Null}} |-> 1]

\* {target: x { .* }, ache: r.ache, tension: r.tension}: a map, never null itself.
AffectEntry(g, fe) ==
  IF fe = Null
  THEN Some([target |-> Null, ache |-> Null, tension |-> Null])
  ELSE Some([target |-> Some(Props(g, fe[1].dst)), ache |-> Some(fe[1].props[1]),
             tension |-> Some(fe[1].props[2])])

LATEST_SELF(g, node_id) ==
  LET linked == {s \in g.SelfState :
                   \E e \in g.edges : /\ e.rel = "HAS_STATE"
                                      /\ e.src = Ref("Identity", node_id)
                                      /\ e.dst = Ref("SelfState", s.state_id)
                                      /\ \E i \in g.Identity : i.node_id = node_id}
      \* WITH s ORDER BY s.t DESC LIMIT 1
      top == {s \in linked : \A o \in linked : s.t >= o.t}
      Row(s) ==
        LET sref == Ref("SelfState", s.state_id)
            rows == {<<Some(s), ev, fe>> :
                       ev \in Optional(Out(g, "EVIDENCED_BY", sref)),
                       fe \in Optional(Out(g, "FEELS", sref))}
            out == {<<r[1],
                      IF r[2] = Null THEN Null ELSE Some(Props(g, r[2][1].dst)),
                      AffectEntry(g, r[3])>> : r \in rows}
        IN [state |-> s, evidence |-> collect_DISTINCT(out, 2),
            affect |-> collect_DISTINCT(out, 3)]
  IN {Row(s) : s \in top}

(* --------------------------- Thought and Claim ------------------------- *)

\* MERGE (c:Claim {claim_id: cid}): a node bearing only the key when none matches.
MergeClaimStubs(claims, ids) ==
  claims \cup {[claim_id |-> cid, text |-> Null, created_at |-> Null] :
                 cid \in {cid \in ids : \A c \in claims : c.claim_id # cid}}

UPSERT_THOUGHT(g, p, t, u) ==
  LET key == coalesce(p.thought_id, u)
      matched == {th \in g.Thought : th.thought_id = key}
      created == [thought_id |-> key, text |-> Some(p.text), created_at |-> Some(t)]
      after == IF matched = {} THEN {created}
               ELSE {[th EXCEPT !.text = Some(p.text)] : th \in matched}
      tref == Ref("Thought", key)
      \* UNWIND $glyph_ids AS gid MERGE (g:Glyph {glyph_id: gid}) MERGE (th)-[:USES_GLYPH]->(g)
      glyphs == g.Glyph \cup {[glyph_id |-> gid] : gid \in Range(p.glyph_ids)}
      e1 == g.edges \cup
            {Edge("USES_GLYPH", tref, Ref("Glyph", gid), Null) : gid \in Range(p.glyph_ids)}
      rows1 == 1..Len(p.glyph_ids)
      \* UNWIND $mentions_claim_ids AS cid MERGE (c:Claim {claim_id: cid}) MERGE (th)-[:MENTIONS]->(c)
      mentioned == IF rows1 = {} THEN {} ELSE Range(p.mentions_claim_ids)
      claims == MergeClaimStubs(g.Claim, mentioned)
      e2 == e1 \cup {Edge("MENTIONS", tref, Ref("Claim", cid), Null) : cid \in mentioned}
      rows2 == IF rows1 = {} THEN {} ELSE 1..Len(p.mentions_claim_ids)
      \* OPTIONAL MATCH (s:Source {source_id: $source_id}) FOREACH ... MERGE (th)-[:DERIVES_FROM]->(s)
      sources == {s \in g.Source : /\ rows2 # {}
                                   /\ p.source_id # Null
                                   /\ s.source_id = p.source_id[1]}
      e3 == e2 \cup {Edge("DERIVES_FROM", tref, Ref("Source", s.source_id), Null) : s \in sources}
  IN [graph |-> [g EXCEPT !.Thought = (g.Thought \ matched) \cup after,
                          !.Glyph = glyphs, !.Claim = claims, !.edges = e3],
      rows |-> IF rows2 = {} THEN {} ELSE after]

\* MATCH (sup) WHERE sup.source_id = sid OR sup.test_id = sid OR sup.artifact_id = sid
\* OR sup.thought_id = sid
SupportTargets(g, sid) ==
  {Ref("Source", s.source_id) : s \in {s \in g.Source : s.source_id = sid}} \cup
  {Ref("Thought", th.thought_id) : th \in {th \in g.Thought : th.thought_id = sid}}

UPSERT_CLAIM(g, p, t, u) ==
  LET key == coalesce(p.claim_id, u)
      matched == {c \in g.Claim : c.claim_id = key}
      created == [claim_id |-> key, text |-> Some(p.text), created_at |-> Some(t)]
      after == IF matched = {} THEN {created}
               ELSE {[c EXCEPT !.text = Some(p.text)] : c \in matched}
      claims == (g.Claim \ matched) \cup after
      g1 == [g EXCEPT !.Claim = claims]
      cref == Ref("Claim", key)
      \* UNWIND $support_ids AS sid MATCH (sup) ... MERGE (c)-[:SUPPORTED_BY]->(sup)
      rows1 == UNION {{<<k, x>> : x \in SupportTargets(g1, p.support_ids[k])} :
                        k \in 1..Len(p.support_ids)}
      e1 == g.edges \cup {Edge("SUPPORTED_BY", cref, r[2], Null) : r \in rows1}
      \* UNWIND $contradicts_ids AS cid MATCH (d:Claim {claim_id: cid}) MERGE (c)-[:CONTRADICTS]->(d)
      rows2 == IF rows1 = {} THEN {}
               ELSE UNION {{<<k, d.claim_id>> :
                              d \in {d \in claims : d.claim_id = p.contradicts_ids[k]}} :
                             k \in 1..Len(p.contradicts_ids)}
      e2 == e1 \cup {Edge("CONTRADICTS", cref, Ref("Claim", r[2]), Null) : r \in rows2}
  IN [graph |-> [g1 EXCEPT !.edges = e2],
      rows |-> IF rows2 = {} THEN {} ELSE after]

\* collect(x) without DISTINCT: a value is listed once per row that holds it.
collect_ALL(rows, k) ==
  [v \in {r[k][1] : r \in {r \in rows : r[k] # Null}} |->
     Cardinality({r \in rows : r[k] = Some(v)})]

\* collect(DISTINCT x { .* }) over the rows of the two OPTIONAL MATCHes.
WhyCollect(rows, k) == collect_DISTINCT(rows, k)

WHY_CHAIN(g, claim_id) ==
  LET Row(c) ==
        LET cref == Ref("Claim", c.claim_id)
            rows == {<<Some(c), sup, con>> :
                       sup \in Optional(Out(g, "SUPPORTED_BY", cref)),
                       con \in Optional(Out(g, "CONTRADICTS", cref))}
            out == {<<r[1],
                      IF r[2] = Null THEN Null ELSE Some(Props(g, r[2][1].dst)),
                      IF r[3] = Null THEN Null ELSE Some(Props(g, r[3][1].dst))>> : r \in rows}
        IN [claim |-> c, supports |-> WhyCollect(out, 2), contradicts |-> WhyCollect(out, 3)]
  IN {Row(c) : c \in {c \in g.Claim : c.claim_id = claim_id}}

(* ------------------------- Ritual, Law and Event ----------------------- *)

\* MATCH (t) WHERE t.phase_id = aid OR t.node_id = aid OR t.law_id = aid
AppliesTargets(g, aid) ==
  {Ref("Phase", ph.phase_id) : ph \in {ph \in g.Phase : ph.phase_id = aid}} \cup
  {Ref("Identity", i.node_id) : i \in {i \in g.Identity : i.node_id = aid}} \cup
  {Ref("Law", l.law_id) : l \in {l \in g.Law : l.law_id = aid}}

UPSERT_RITUAL(g, p, t, u) ==
  LET key == coalesce(p.ritual_id, u)
      matched == {r \in g.Ritual : r.ritual_id = key}
      created == [ritual_id |-> key, name |-> p.name, created_at |-> Some(t)]
      after == IF matched = {} THEN {created}
               ELSE {[r EXCEPT !.name = p.name] : r \in matched}
      rows1 == UNION {{<<k, x>> : x \in AppliesTargets(g, p.applies_to[k])} :
                        k \in 1..Len(p.applies_to)}
      e1 == g.edges \cup {Edge("APPLIES_TO", Ref("Ritual", key), r[2], Null) : r \in rows1}
  IN [graph |-> [g EXCEPT !.Ritual = (g.Ritual \ matched) \cup after, !.edges = e1],
      rows |-> IF rows1 = {} THEN {} ELSE after]

UPSERT_LAW(g, p, t, u) ==
  LET key == coalesce(p.law_id, u)
      matched == {l \in g.Law : l.law_id = key}
      created == [law_id |-> key, name |-> p.name, created_at |-> Some(t)]
      after == IF matched = {} THEN {created}
               ELSE {[l EXCEPT !.name = p.name] : l \in matched}
  IN [graph |-> [g EXCEPT !.Law = (g.Law \ matched) \cup after], rows |-> after]

\* The parameters create_event hands to CREATE_EVENT (EventIn.dict()), and the
\* ones the statement reads.
EventParams == {"name", "when", "meta", "updates"}
CREATE_EVENT_reads == {"event_id", "name", "when", "meta", "updates"}

(* ----------------------------- handlers -------------------------------- *)

\* _first(records, key): None when there are no rows, else the first row's value.
_first(rows) == IF rows = {} THEN {Null} ELSE {Some(r) : r \in rows}

Ok(body) == [status |-> 200, body |-> body]
Forbidden == [status |-> 403, body |-> Null]
NotFound == [status |-> 404, body |-> Null]
ServerError == [status |-> 500, body |-> Null]

Init ==
  /\ graph = EmptyGraph
  /\ now = 1
  /\ uuids = 0
  /\ req = [op |-> "none"]
  /\ resp = Ok(Null)

\* The clock of datetime(): one tick per write transaction, up to MaxWrites writes.
CanWrite == now <= MaxWrites

Commit(r) ==
  /\ graph' = r.graph
  /\ \E entity \in _first(r.rows) : resp' = Ok(entity)
  /\ now' = now + 1

upsert_identity(node_id, label, kind) ==
  /\ CanWrite
  /\ Commit(UPSERT_IDENTITY(graph, node_id, label, kind, now))
  /\ req' = [op |-> "upsert_identity", node_id |-> node_id, label |-> label, kind |-> kind]
  /\ UNCHANGED uuids

\* One consent id per identity, handed to the statement as its key.
ConsentIdFromNode(node_id) == Some(node_id)

\* "consent_id": None
ConsentIdParam(node_id) == Null

create_consent(node_id, scope, granted_at, revoked_at) ==
  /\ CanWrite
  /\ Commit(CREATE_CONSENT(graph, ConsentIdParam(node_id), node_id, scope, granted_at,
                           revoked_at, now, uuids + 1))
  /\ uuids' = uuids + 1
  /\ req' = [op |-> "create_consent", node_id |-> node_id, scope |-> scope,
             granted_at |-> granted_at, revoked_at |-> revoked_at]

upsert_thought(body) ==
  /\ CanWrite
  /\ Commit(UPSERT_THOUGHT(graph, body, now, uuids + 1))
  /\ uuids' = uuids + 1
  /\ req' = [op |-> "upsert_thought", body |-> body]

\* A guard that never raises.
EnsureNothing(g, node_id, scope) == TRUE

\* Raise 403 if consent not granted for the requested scope.
_ensure_consent(g, node_id, scope) == Allowed(g, node_id, scope)

\* The lineage id passed as the state's own key.
StateIdFromLineage(body) == body.derived_from_state_id

\* "state_id": None
StateIdParam(body) == Null

upsert_state(body) ==
  /\ req' = [op |-> "upsert_state", body |-> body]
  /\ IF ~_ensure_consent(graph, body.node_id, body.scope)
     THEN /\ resp' = Forbidden
          /\ UNCHANGED <<graph, now, uuids>>
     ELSE /\ CanWrite
          /\ Commit(UPSERT_STATE(graph,
                                 [node_id |-> body.node_id, state_id |-> StateIdParam(body),
                                  t |-> body.t, vector |-> body.vector,
                                  phase_id |-> body.phase_id,
                                  derived_from_state_id |-> body.derived_from_state_id,
                                  evidence |-> body.evidence, feels |-> body.feels],
                                 now, uuids + 1))
          /\ uuids' = uuids + 1

upsert_claim(body) ==
  /\ CanWrite
  /\ Commit(UPSERT_CLAIM(graph, body, now, uuids + 1))
  /\ uuids' = uuids + 1
  /\ req' = [op |-> "upsert_claim", body |-> body]

upsert_ritual(body) ==
  /\ CanWrite
  /\ Commit(UPSERT_RITUAL(graph, [ritual_id |-> Null, name |-> body.name,
                                  applies_to |-> body.applies_to], now, uuids + 1))
  /\ uuids' = uuids + 1
  /\ req' = [op |-> "upsert_ritual", body |-> body]

upsert_law(body) ==
  /\ CanWrite
  /\ Commit(UPSERT_LAW(graph, [law_id |-> Null, name |-> body.name], now, uuids + 1))
  /\ uuids' = uuids + 1
  /\ req' = [op |-> "upsert_law", body |-> body]

\* run_write(cypher.CREATE_EVENT, body.dict()): the statement reads $event_id,
\* which the handler does not pass, so the transaction fails and nothing commits.
create_event(body) ==
  /\ ~(CREATE_EVENT_reads \subseteq EventParams)
  /\ resp' = ServerError
  /\ req' = [op |-> "create_event", body |-> body]
  /\ UNCHANGED <<graph, now, uuids>>

why_chain(claim_id) ==
  /\ LET rows == WHY_CHAIN(graph, claim_id)
     IN IF rows = {} THEN resp' = NotFound
        ELSE \E row \in rows : resp' = Ok(row)
  /\ req' = [op |-> "why_chain", claim_id |-> claim_id]
  /\ UNCHANGED <<graph, now, uuids>>

\* rows[0] if rows else {}
latest_self(node_id) ==
  /\ LET rows == LATEST_SELF(graph, node_id)
     IN IF rows = {} THEN resp' = Ok(Null)
        ELSE \E row \in rows : resp' = Ok(row)
  /\ req' = [op |-> "latest_self", node_id |-> node_id]
  /\ UNCHANGED <<graph, now, uuids>>

(* --------------------------- specifications ---------------------------- *)

StateBody(node_id, scope, t, derived, evidence, feels) ==
  [node_id |-> node_id, scope |-> scope, t |-> t, vector |-> "v1", phase_id |-> Null,
   derived_from_state_id |-> derived, evidence |-> evidence, feels |-> feels]

ThoughtBody(thought_id, text, glyph_ids, mentions, source_id) ==
  [thought_id |-> thought_id, text |-> text, glyph_ids |-> glyph_ids,
   mentions_claim_ids |-> mentions, source_id |-> source_id]

ClaimBody(claim_id, text, support_ids, contradicts_ids) ==
  [claim_id |-> claim_id, text |-> text, support_ids |-> support_ids,
   contradicts_ids |-> contradicts_ids]

Feel(target_id, ache, tension) == [target_id |-> target_id, ache |-> ache, tension |-> tension]

\* Identity, consent and the guarded state write.
Next ==
  \/ \E id \in Ids : upsert_identity(id, Some("l1"), Some("k1"))
  \/ \E id \in Ids, s \in Scope, ra \in {Null, Some(0)} : create_consent(id, s, Null, ra)
  \/ \E id \in Ids, s \in Scope : upsert_state(StateBody(id, s, 1, Null, <<>>, <<>>))
  \/ \E id \in Ids : latest_self(id)

Spec == Init /\ [][Next]_vars

\* The merge of a node on its primary key: first call, repeated call, stub.
NextUpsert ==
  \/ \E id \in Ids, l \in {Null, Some("l1"), Some("l2")}, k \in {Some("k1"), Some("k2")} :
       upsert_identity(id, l, k)
  \/ \E id \in Ids : create_consent(id, "public", Null, Null)
  \/ \E id \in Ids, x \in {"a", "b"} :
       upsert_thought(ThoughtBody(Some(id), x, <<id1>>, <<id2>>, Null))
  \/ \E id \in Ids, x \in {"a", "b"} : upsert_claim(ClaimBody(Some(id), x, <<id1>>, <<id1>>))

SpecUpsert == Init /\ [][NextUpsert]_vars

\* Thoughts, claims and the justification query.
NextProvenance ==
  \/ \E id \in Ids, w \in {<<<<>>, <<id1, id2>>, Null>>, <<<<id1>>, <<>>, Null>>,
                          <<<<id1>>, <<id1, id2>>, Some(id1)>>} :
       upsert_thought(ThoughtBody(Some(id), "a", w[1], w[2], w[3]))
  \/ \E cid \in {Null, Some(id1)}, sup \in {<<>>, <<id1, id1>>, <<id1, id2>>},
        con \in {<<>>, <<id1, id2>>} :
       upsert_claim(ClaimBody(cid, "c", sup, con))
  \/ \E cid \in Ids \cup {c.claim_id : c \in graph.Claim} : why_chain(cid)

SpecProvenance == Init /\ [][NextProvenance]_vars

\* SelfState snapshots with lineage, evidence and affect, and the latest one.
\* A caller names a prior state by an id of its own choosing or by the id of a
\* state already written; the id the store is about to generate is not known to it.
NextState ==
  \/ create_consent(id1, "public", Null, Null)
  \/ \E id \in Ids : upsert_thought(ThoughtBody(Some(id), "a", <<id1>>, <<id1>>, Null))
  \/ \E t \in 1..MaxT,
        d \in {Null, Some(id1)} \cup {Some(s.state_id) : s \in graph.SelfState},
        ev \in {<<>>, <<id1>>, <<id2>>},
        fe \in {<<>>, <<Feel(id1, 1, 2)>>, <<Feel(id1, 1, 2), Feel(id1, 3, 4)>>} :
       upsert_state(StateBody(id1, "private", t, d, ev, fe))
  \/ \E id \in Ids : latest_self(id)

SpecState == Init /\ [][NextState]_vars

\* Every operation of the API, on small inputs.
NextApi ==
  \/ \E id \in Ids : upsert_identity(id, Some("l1"), Some("k1"))
  \/ \E id \in Ids, s \in {"private", "public"} : create_consent(id, s, Null, Null)
  \/ \E gl \in {<<>>, <<id1>>} : upsert_thought(ThoughtBody(Some(id1), "a", gl, <<id1>>, Some(id2)))
  \/ \E id \in Ids, ev \in {<<>>, <<id1>>}, fe \in {<<>>, <<Feel(id1, 1, 2)>>} :
       upsert_state(StateBody(id, "private", 1, Some(id2), ev, fe))
  \/ \E sup \in {<<>>, <<id1>>, <<id2>>} : upsert_claim(ClaimBody(Some(id1), "c", sup, <<id1>>))
  \/ \E ap \in {<<>>, <<id1>>} : upsert_ritual([name |-> "r", applies_to |-> ap])
  \/ upsert_law([name |-> "law"])
  \/ create_event([name |-> "e", when |-> 1, updates |-> <<id1>>])
  \/ why_chain(id1)
  \/ \E id \in Ids : latest_self(id)

SpecApi == Init /\ [][NextApi]_vars

\* A request body that also carries member k with value v.  The input models
\* declare no such member for states, rituals and laws, and drop it on parsing.
WithKey(body, k, v) == [f \in DOMAIN body \cup {k} |-> IF f = k THEN v ELSE body[f]]

\* Writes of each kind of entity with and without a primary key from the caller.
NextKeys ==
  \/ \E id \in Ids : upsert_identity(id, Some("l1"), Some("k1"))
  \/ create_consent(id1, "public", Null, Null)
  \/ \E key \in {Null, Some(id1)} : upsert_thought(ThoughtBody(key, "a", <<id1>>, <<>>, Null))
  \/ \E key \in {Null, Some(id1)} : upsert_claim(ClaimBody(key, "c", <<id1>>, <<>>))
  \/ \E key \in {Null, Some(id1)} :
       upsert_state(WithKey(StateBody(id1, "public", 1, Null, <<>>, <<>>), "state_id", key))
  \/ \E key \in {Null, Some(id1)} :
       upsert_ritual(WithKey([name |-> "r", applies_to |-> <<>>], "ritual_id", key))
  \/ \E key \in {Null, Some(id1)}, x \in {"a", "b"} :
       upsert_law(WithKey([name |-> x], "law_id", key))

SpecKeys == Init /\ [][NextKeys]_vars

\* Every operation that writes edges, repeated with the same ids and with lists
\* that name the same target twice.
NextEdges ==
  \/ upsert_identity(id1, Some("l1"), Some("k1"))
  \/ \E sc \in {"private", "public"} : create_consent(id1, sc, Null, Null)
  \/ upsert_thought(ThoughtBody(Some(id1), "a", <<id1, id1>>, <<id1, id1>>, Some(id1)))
  \/ upsert_claim(ClaimBody(Some(id1), "c", <<id1, id1>>, <<id1, id1>>))
  \/ \E d \in {Null} \cup {Some(st.state_id) : st \in graph.SelfState},
        fe \in {<<Feel(id1, 1, 2)>>, <<Feel(id1, 1, 2), Feel(id1, 3, 4)>>} :
       upsert_state(StateBody(id1, "private", 1, d, <<id1, id1>>, fe))
  \/ upsert_ritual([name |-> "r", applies_to |-> <<id1, id1>>])

SpecEdges == Init /\ [][NextEdges]_vars

(* ------------------------------- claims -------------------------------- *)

\* The Consent nodes an identity is linked to by a CONSENT edge.
ConsentsOf(g, node_id) ==
  {c \in g.Consent : \E e \in g.edges : /\ e.rel = "CONSENT"
                                        /\ e.src = Ref("Identity", node_id)
                                        /\ e.dst = Ref("Consent", c.consent_id)}

\* A consent that is not revoked and whose scope is the requested one or public.
LiveConsent(g, node_id, scope) ==
  \E c \in ConsentsOf(g, node_id) : c.revoked_at = Null /\ (c.scope = scope \/ c.scope = "public")

\* C1: in every reachable graph, for every identity and scope, the consent guard
\* answers true exactly when the identity has a CONSENT edge to a Consent that is
\* not revoked and whose scope is the requested scope or public; so a public
\* consent authorizes all three scopes, a private-only consent does not authorize
\* shared, and a revoked consent authorizes nothing.
C1_GuardIffLiveConsent ==
  \A id \in Ids :
    /\ \A s \in Scope : _ensure_consent(graph, id, s) <=> LiveConsent(graph, id, s)
    /\ (\E c \in ConsentsOf(graph, id) : c.scope = "public" /\ c.revoked_at = Null)
         => \A s \in Scope : _ensure_consent(graph, id, s)
    /\ (\A c \in ConsentsOf(graph, id) : c.scope = "private")
         => ~_ensure_consent(graph, id, "shared")
    /\ (\A c \in ConsentsOf(graph, id) : c.revoked_at # Null)
         => \A s \in Scope : ~_ensure_consent(graph, id, s)

\* C1 witness: one identity holds a live public consent and passes every scope,
\* the other holds nothing but a revoked consent and is refused its own scope.
C1_Witness ==
  \E a \in Ids, b \in Ids :
    /\ a # b
    /\ \E c \in ConsentsOf(graph, a) : c.scope = "public" /\ c.revoked_at = Null
    /\ \A s \in Scope : _ensure_consent(graph, a, s)
    /\ ConsentsOf(graph, b) # {}
    /\ \A c \in ConsentsOf(graph, b) :
         c.revoked_at # Null /\ ~_ensure_consent(graph, b, c.scope)

\* C2: an upsert_state for (I, S) called while the guard is false for (I, S) is
\* answered 403 and leaves the graph exactly as it was; and a HAS_STATE edge is
\* only ever added by an upsert_state whose identity held, when it was called, a
\* consent that is not revoked and matches the write's scope or is public.
C2_NoConsentNoWrite ==
  [][/\ (req'.op = "upsert_state" /\ ~LiveConsent(graph, req'.body.node_id, req'.body.scope))
          => (resp'.status = 403 /\ graph' = graph)
     /\ \A e \in graph'.edges \ graph.edges :
          e.rel = "HAS_STATE"
            => /\ req'.op = "upsert_state"
               /\ e.src = Ref("Identity", req'.body.node_id)
               /\ LiveConsent(graph, req'.body.node_id, req'.body.scope)]_vars

\* C2 witness: an existing identity whose only live consent is private asked for
\* a shared write and was refused.
C2_Witness ==
  /\ req.op = "upsert_state"
  /\ resp.status = 403
  /\ req.body.scope = "shared"
  /\ \E i \in graph.Identity : i.node_id = req.body.node_id
  /\ \E c \in ConsentsOf(graph, req.body.node_id) : c.scope = "private" /\ c.revoked_at = Null

\* C5: an upsert_state naming a node_id that no Identity carries fails with a
\* not-found error, which is neither the permission error nor a success, for
\* every scope, and creates no SelfState.
C5_MissingIdentityNotFound ==
  [][(req'.op = "upsert_state"
        /\ ~\E i \in graph.Identity : i.node_id = req'.body.node_id)
       => (resp'.status = 404 /\ graph'.SelfState = graph.SelfState)]_vars

\* C3: a second upsert_identity with the same node_id, label and kind leaves
\* exactly one Identity with that node_id, leaves its created_at as the first
\* call left it, and returns the same map as the first call.
C3_IdentityIdempotent ==
  [][(req.op = "upsert_identity" /\ req' = req)
       => /\ Cardinality({n \in graph'.Identity : n.node_id = req.node_id}) = 1
          /\ \A n \in graph.Identity, m \in graph'.Identity :
               (n.node_id = req.node_id /\ m.node_id = req.node_id)
                 => m.created_at = n.created_at
          /\ resp'.status = 200
          /\ resp' = resp]_vars

\* C3 witness: an upsert_identity was answered for an identity created by an
\* earlier call that carried the same label and kind.
C3_Witness ==
  /\ req.op = "upsert_identity"
  /\ resp.status = 200
  /\ \E n \in graph.Identity :
       /\ n.node_id = req.node_id
       /\ n.created_at # Null
       /\ n.created_at[1] < now - 1
       /\ n.label = req.label
       /\ n.kind = req.kind

\* The primary key an upsert wrote to: the one submitted, or the one generated.
KeyOf(id, u) == IF id = Null THEN randomUUID(u) ELSE id[1]

\* C4: when the node with the targeted primary key already exists (created by an
\* earlier upsert or as a stub), after upsert_identity, upsert_thought or
\* upsert_claim every mutable field of that node equals the value submitted in
\* this call, and its created_at is the same as before the call.
C4_FullReplaceOnMatch ==
  [][/\ req'.op = "upsert_identity"
          => \A n \in graph.Identity : n.node_id = req'.node_id
               => \E m \in graph'.Identity :
                    /\ m.node_id = n.node_id
                    /\ m.label = req'.label
                    /\ m.kind = req'.kind
                    /\ m.created_at = n.created_at
     /\ req'.op = "upsert_thought"
          => \A n \in graph.Thought : n.thought_id = KeyOf(req'.body.thought_id, uuids')
               => \E m \in graph'.Thought :
                    /\ m.thought_id = n.thought_id
                    /\ m.text = Some(req'.body.text)
                    /\ m.created_at = n.created_at
     /\ req'.op = "upsert_claim"
          => \A n \in graph.Claim : n.claim_id = KeyOf(req'.body.claim_id, uuids')
               => \E m \in graph'.Claim :
                    /\ m.claim_id = n.claim_id
                    /\ m.text = Some(req'.body.text)
                    /\ m.created_at = n.created_at]_vars

\* Whether some node, of whatever label, carries the id as its primary key.
Carried(g, id) ==
  \/ \E n \in g.Identity : n.node_id = id
  \/ \E n \in g.Consent : n.consent_id = id
  \/ \E n \in g.SelfState : n.state_id = id
  \/ \E n \in g.Thought : n.thought_id = id
  \/ \E n \in g.Claim : n.claim_id = id
  \/ \E n \in g.Glyph : n.glyph_id = id
  \/ \E n \in g.Ritual : n.ritual_id = id
  \/ \E n \in g.Law : n.law_id = id
  \/ \E n \in g.Source : n.source_id = id
  \/ \E n \in g.Phase : n.phase_id = id

\* After the step, a node bearing the id exists and the entity has an edge of
\* the type to it.
Wired(g, rel, src, id) ==
  Carried(g, id) /\ \E e \in g.edges : e.rel = rel /\ e.src = src /\ e.dst[2] = id

\* C6: whenever an upsert references, through any declared relationship, an id
\* that no existing node carries, the operation succeeds and afterwards a stub
\* bearing that id exists together with the typed edge from the upserted entity.
C6_StubForEveryReference ==
  [][/\ req'.op = "upsert_thought"
          => LET th == Ref("Thought", KeyOf(req'.body.thought_id, uuids'))
                 b == req'.body
             IN /\ resp'.status = 200
                /\ (b.source_id # Null /\ ~Carried(graph, b.source_id[1]))
                     => Wired(graph', "DERIVES_FROM", th, b.source_id[1])
     /\ req'.op = "upsert_claim"
          => LET c == Ref("Claim", KeyOf(req'.body.claim_id, uuids'))
                 b == req'.body
             IN /\ resp'.status = 200
                /\ \A sid \in Range(b.support_ids) :
                     ~Carried(graph, sid) => Wired(graph', "SUPPORTED_BY", c, sid)
                /\ \A cid \in Range(b.contradicts_ids) :
                     ~Carried(graph, cid) => Wired(graph', "CONTRADICTS", c, cid)
     /\ (req'.op = "upsert_state" /\ resp'.status # 403)
          => LET st == Ref("SelfState", randomUUID(uuids'))
                 b == req'.body
             IN /\ resp'.status = 200
                /\ (b.phase_id # Null /\ ~Carried(graph, b.phase_id[1]))
                     => Wired(graph', "IN_PHASE", st, b.phase_id[1])
                /\ (b.derived_from_state_id # Null
                      /\ ~Carried(graph, b.derived_from_state_id[1]))
                     => Wired(graph', "DERIVED_FROM", st, b.derived_from_state_id[1])
                /\ \A ev \in Range(b.evidence) :
                     ~Carried(graph, ev) => Wired(graph', "EVIDENCED_BY", st, ev)
                /\ \A k \in 1..Len(b.feels) :
                     ~Carried(graph, b.feels[k].target_id)
                       => Wired(graph', "FEELS", st, b.feels[k].target_id)
     /\ req'.op = "upsert_ritual"
          => /\ resp'.status = 200
             /\ \A aid \in Range(req'.body.applies_to) :
                  ~Carried(graph, aid)
                    => Wired(graph', "APPLIES_TO", Ref("Ritual", randomUUID(uuids')), aid)
     /\ req'.op = "create_event"
          => resp'.status = 200]_vars

\* C7: every upsert that succeeds returns the entity as stored after the call,
\* a non-null map whose values are the submitted fields, also when its
\* relationship lists are empty or name ids that resolve to no node.
C7_ReturnsStoredEntity ==
  [][(resp'.status = 200 /\ req'.op \in {"upsert_identity", "create_consent", "upsert_thought",
                                         "upsert_state", "upsert_claim", "upsert_ritual",
                                         "upsert_law", "create_event"})
       => /\ resp'.body # Null
          /\ LET e == resp'.body[1]
             IN CASE req'.op = "upsert_identity" ->
                       /\ e \in graph'.Identity
                       /\ e.node_id = req'.node_id
                       /\ e.label = req'.label
                       /\ e.kind = req'.kind
                  [] req'.op = "create_consent" ->
                       /\ e \in graph'.Consent
                       /\ e.scope = req'.scope
                       /\ e.revoked_at = req'.revoked_at
                  [] req'.op = "upsert_thought" ->
                       /\ e \in graph'.Thought
                       /\ e.thought_id = KeyOf(req'.body.thought_id, uuids')
                       /\ e.text = Some(req'.body.text)
                  [] req'.op = "upsert_state" ->
                       /\ e \in graph'.SelfState
                       /\ e.t = req'.body.t
                       /\ e.vector = req'.body.vector
                  [] req'.op = "upsert_claim" ->
                       /\ e \in graph'.Claim
                       /\ e.claim_id = KeyOf(req'.body.claim_id, uuids')
                       /\ e.text = Some(req'.body.text)
                  [] req'.op = "upsert_ritual" ->
                       e \in graph'.Ritual /\ e.name = req'.body.name
                  [] req'.op = "upsert_law" ->
                       e \in graph'.Law /\ e.name = req'.body.name
                  [] OTHER -> e.name = req'.body.name]_vars

\* The property maps of the nodes a claim reaches by one edge of the type.
OneHop(g, rel, claim_id) ==
  {Props(g, e.dst) : e \in Out(g, rel, Ref("Claim", claim_id))}

\* C8: why_chain on an existing claim returns the claim's fields, exactly the
\* nodes one SUPPORTED_BY edge away and exactly the claims one CONTRADICTS edge
\* away, each listed once and nothing reached only transitively (empty lists when
\* there are none); on an id no Claim carries it fails with 404.
C8_WhyChainOneHopDistinct ==
  req.op = "why_chain" =>
    IF \E c \in graph.Claim : c.claim_id = req.claim_id
    THEN /\ resp.status = 200
         /\ resp.body.claim \in graph.Claim
         /\ resp.body.claim.claim_id = req.claim_id
         /\ DOMAIN resp.body.supports = OneHop(graph, "SUPPORTED_BY", req.claim_id)
         /\ DOMAIN resp.body.contradicts = OneHop(graph, "CONTRADICTS", req.claim_id)
         /\ \A v \in DOMAIN resp.body.supports : resp.body.supports[v] = 1
         /\ \A v \in DOMAIN resp.body.contradicts : resp.body.contradicts[v] = 1
    ELSE resp.status = 404

\* C8 witness: why_chain answered for a claim with two supports and a
\* contradiction, one contradicted claim contradicting nothing itself.
C8_Witness ==
  /\ req.op = "why_chain"
  /\ resp.status = 200
  /\ Cardinality(DOMAIN resp.body.supports) = 2
  /\ Cardinality(DOMAIN resp.body.contradicts) >= 1
  /\ \E c \in graph.Claim : c.claim_id # req.claim_id

\* The SelfStates an identity is linked to by HAS_STATE.
StatesOf(g, node_id) ==
  {s \in g.SelfState : \E e \in g.edges : /\ e.rel = "HAS_STATE"
                                          /\ e.src = Ref("Identity", node_id)
                                          /\ e.dst = Ref("SelfState", s.state_id)}

\* C9: latest_self returns a SelfState linked to the identity whose t is the
\* maximum over the identity's states, whatever the order of the upserts, with
\* exactly that state's EVIDENCED_BY targets and one affect entry per FEELS edge
\* of that state carrying the edge's ache and tension; with no states it returns
\* an empty result and no error.
C9_LatestSelf ==
  req.op = "latest_self" =>
    /\ resp.status = 200
    /\ IF StatesOf(graph, req.node_id) = {}
       THEN resp.body = Null
       ELSE LET st == resp.body.state
                sref == Ref("SelfState", st.state_id)
            IN /\ st \in StatesOf(graph, req.node_id)
               /\ \A o \in StatesOf(graph, req.node_id) : st.t >= o.t
               /\ resp.body.evidence =
                    [v \in {Props(graph, e.dst) : e \in Out(graph, "EVIDENCED_BY", sref)} |-> 1]
               /\ resp.body.affect =
                    [v \in {[target |-> Some(Props(graph, e.dst)), ache |-> Some(e.props[1]),
                             tension |-> Some(e.props[2])] : e \in Out(graph, "FEELS", sref)}
                       |-> 1]

\* The states reached from S by one to n DERIVED_FROM edges.
RECURSIVE Lineage(_, _, _)
Lineage(g, S, n) ==
  IF n = 0 THEN {}
  ELSE LET parents == {e.dst : e \in {e \in g.edges : e.rel = "DERIVED_FROM" /\ e.src \in S}}
       IN parents \cup Lineage(g, parents, n - 1)

Keys(g, label, k) == {n[k] : n \in g[label]}

\* The write of this step stored its entity under the key the request carries,
\* or under a newly generated one when it carries none, and no key of the label
\* is held by two nodes.
KeyResolved(label, k) ==
  LET supplied == IF k \in DOMAIN req'.body THEN req'.body[k] ELSE Null
  IN /\ supplied # Null => Keys(graph', label, k) = Keys(graph, label, k) \cup {supplied[1]}
     /\ supplied = Null =>
          /\ randomUUID(uuids') \notin Keys(graph, label, k)
          /\ Keys(graph', label, k) = Keys(graph, label, k) \cup {randomUUID(uuids')}
     /\ \A key \in Keys(graph', label, k) :
          Cardinality({n \in graph'[label] : n[k] = key}) = 1

\* The three kinds whose input model declares the key.
DeclaredKeysResolved ==
  /\ req'.op = "upsert_identity" =>
       /\ Keys(graph', "Identity", "node_id") =
            Keys(graph, "Identity", "node_id") \cup {req'.node_id}
       /\ \A key \in Keys(graph', "Identity", "node_id") :
            Cardinality({n \in graph'.Identity : n.node_id = key}) = 1
  /\ req'.op = "upsert_thought" => KeyResolved("Thought", "thought_id")
  /\ req'.op = "upsert_claim" => KeyResolved("Claim", "claim_id")

\* C12: a write that carries a primary key stores its entity under that key,
\* changing the node that already has it instead of adding another, so each key
\* is held by one node of the label; an identifier is generated only for a write
\* that carries none.  Stated for identities, thoughts, claims, states, rituals
\* and laws.
C12_CallerKeyResolved ==
  [][resp'.status = 200 =>
       /\ DeclaredKeysResolved
       /\ req'.op = "upsert_state" => KeyResolved("SelfState", "state_id")
       /\ req'.op = "upsert_ritual" => KeyResolved("Ritual", "ritual_id")
       /\ req'.op = "upsert_law" => KeyResolved("Law", "law_id")]_vars

\* C13: after upsert_thought, whatever the two lists are (either may be empty),
\* the Thought has a USES_GLYPH edge to a Glyph node for every id of glyph_ids
\* and a MENTIONS edge to a Claim node for every id of mentions_claim_ids, the
\* node being created when no node had the id, and the call succeeds.
C13_ThoughtWiring ==
  [][req'.op = "upsert_thought" =>
       LET th == Ref("Thought", KeyOf(req'.body.thought_id, uuids'))
       IN /\ resp'.status = 200
          /\ \A gid \in Range(req'.body.glyph_ids) :
               /\ \E n \in graph'.Glyph : n.glyph_id = gid
               /\ Edge("USES_GLYPH", th, Ref("Glyph", gid), Null) \in graph'.edges
          /\ \A cid \in Range(req'.body.mentions_claim_ids) :
               /\ \E n \in graph'.Claim : n.claim_id = cid
               /\ Edge("MENTIONS", th, Ref("Claim", cid), Null) \in graph'.edges]_vars

\* C14: after upsert_claim with support_ids that all name an existing supportable
\* node and contradicts_ids that all name an existing Claim (either list may be
\* empty), the Claim has a SUPPORTED_BY edge to every node named by support_ids
\* and a CONTRADICTS edge to every Claim named by contradicts_ids, whatever
\* support_ids holds.
C14_ClaimWiring ==
  [][(/\ req'.op = "upsert_claim"
      /\ \A sid \in Range(req'.body.support_ids) : SupportTargets(graph, sid) # {}
      /\ \A cid \in Range(req'.body.contradicts_ids) :
           \E d \in graph.Claim : d.claim_id = cid)
       => LET c == Ref("Claim", KeyOf(req'.body.claim_id, uuids'))
          IN /\ \A sid \in Range(req'.body.support_ids) :
                  \A sup \in SupportTargets(graph, sid) :
                    Edge("SUPPORTED_BY", c, sup, Null) \in graph'.edges
             /\ \A cid \in Range(req'.body.contradicts_ids) :
                  Edge("CONTRADICTS", c, Ref("Claim", cid), Null) \in graph'.edges]_vars

\* No two edges of one type join the same ordered pair of nodes.
OneEdgePerPair(g) ==
  \A e1, e2 \in g.edges :
    (e1.rel = e2.rel /\ e1.src = e2.src /\ e1.dst = e2.dst) => e1 = e2

\* C15: after every operation the graph has at most one edge of a given type
\* between a given ordered pair of nodes, HAS_STATE, CONSENT and FEELS included,
\* and a FEELS edge written by upsert_state carries the ache and tension of the
\* last entry of feels that names its target.
C15_EdgeDedup ==
  [][/\ OneEdgePerPair(graph')
     /\ req'.op = "upsert_state" =>
          \A e \in graph'.edges \ graph.edges :
            e.rel = "FEELS" =>
              \E k \in 1..Len(req'.body.feels) :
                /\ req'.body.feels[k].target_id = e.dst[2]
                /\ e.props = <<req'.body.feels[k].ache, req'.body.feels[k].tension>>
                /\ \A j \in (k + 1)..Len(req'.body.feels) :
                     req'.body.feels[j].target_id # e.dst[2]]_vars

\* A state was written with two feels entries for one target, and the repeated
\* thought and its lists left edges behind.
C15_Witness ==
  /\ req.op = "upsert_state"
  /\ Len(req.body.feels) = 2
  /\ req.body.feels[1].target_id = req.body.feels[2].target_id
  /\ \E e \in graph.edges : e.rel = "FEELS" /\ e.props = <<3, 4>>
  /\ \E e \in graph.edges : e.rel = "HAS_STATE"
  /\ \E e \in graph.edges : e.rel = "CONSENT"
  /\ \E e \in graph.edges : e.rel = "EVIDENCED_BY"

\* C16: no operation changes a Consent node once it is written, revoked_at
\* included; every create_consent adds a Consent node under an id no node had;
\* and an (identity, scope) pair that passes the consent guard passes it after
\* every further operation, a create_consent carrying revoked_at among them.
C16_AuthorizationMonotone ==
  [][/\ graph.Consent \subseteq graph'.Consent
     /\ req'.op = "create_consent" =>
          \E c \in graph'.Consent \ graph.Consent :
            /\ \A o \in graph.Consent : o.consent_id # c.consent_id
            /\ c.revoked_at = req'.revoked_at
     /\ \A id \in Ids, sc \in Scope :
          _ensure_consent(graph, id, sc) => _ensure_consent(graph', id, sc)]_vars

\* An identity that holds a live consent for a scope was sent a create_consent
\* for that scope carrying revoked_at, and still passes the guard.
C16_Witness ==
  /\ req.op = "create_consent"
  /\ req.revoked_at # Null
  /\ _ensure_consent(graph, req.node_id, req.scope)
  /\ \E c \in ConsentsOf(graph, req.node_id) : c.scope = req.scope /\ c.revoked_at # Null
====
